---- MODULE Spec2Model ----
(***************************************************************************)
(* Coin-flip wagering contract (src/src/lib.rs) and its secret computation *)
(* (src/src/zk_compute.rs).                                                *)
(*                                                                         *)
(* The contract state is the record `state` with the five SortedVecMaps    *)
(* and the token address.  A SortedVecMap is a function whose DOMAIN is    *)
(* the set of keys present.  Every entry point is a pure operator from     *)
(* (context, state, arguments) to a transaction outcome; the host runs one *)
(* transaction at a time and discards the state of a transaction that      *)
(* panics.  The host's event queue (escrow callbacks in flight) and the    *)
(* secret engine (inputs, computations, open requests) are the             *)
(* environment.                                                            *)
(***************************************************************************)
EXTENDS Integers, Sequences, FiniteSets, TLC

\* ---------------------------------------------------------------- bounds
\* u64 is modelled WordBits wide: amounts and balances live in 0..U64Max.
WordBits == 2
\* secret inputs (pending or confirmed) the engine holds
MaxInputs == 1
\* computations running plus output variables waiting to be opened
MaxOutputs == 2
\* longest run of one repeated contribution handed to the computation
MaxRepeat == 30

\* ------------------------------------------------------------- addresses
Players == {"alice", "bob"}
contract_address == "house"
TokenAddress == "token"

U64Max == 2^WordBits - 1
\* a small stake and one whose double does not fit the word
BetAmounts == {1, 2^(WordBits - 1) + 1}
PlayerChoice == {"Heads", "Tails"}
GamePhase == {"Start", "PlaceBets", "FlipCoin", "Done"}
\* the secret 8-bit contribution the players submit: an out-of-range share
Contributions == {7}

\* ------------------------------------------------------- SortedVecMap
MapInsert(m, k, v) == [x \in (DOMAIN m) \cup {k} |-> IF x = k THEN v ELSE m[x]]
MapRemove(m, k) == [x \in (DOMAIN m) \ {k} |-> m[x]]
EmptyMap == [x \in {} |-> 0]

\* ------------------------------------------------------------ integers
\* u64 arithmetic: the exact result, and whether it fits
WrapU64(x) == x % (U64Max + 1)
Overflows(x) == x > U64Max

\* i8 two's complement
WrapI8(x) == ((x + 128) % 256) - 128
ToU8(x) == x % 256

RECURSIVE BitAndN(_, _, _)
BitAndN(a, b, n) ==
  IF n = 0 THEN 0
  ELSE (IF a % 2 = 1 /\ b % 2 = 1 THEN 1 ELSE 0)
       + 2 * BitAndN(a \div 2, b \div 2, n - 1)

\* Sbi8 & Sbi8
BitAnd8(a, b) == WrapI8(BitAndN(ToU8(a), ToU8(b), 8))

\* ---------------------------------------------------- zk_compute.rs
\* the reduction subtracting one instead of two
reduce_contribution_MinusOne(value) ==
  LET reduced == BitAnd8(value, 7)
  IN IF reduced >= 2 THEN WrapI8(reduced - 1) ELSE reduced

reduce_contribution(value) ==
  LET reduced == BitAnd8(value, 7)
  IN IF reduced >= 2 THEN WrapI8(reduced - 2) ELSE reduced

RECURSIVE SumContributions(_, _)
SumContributions(vars, acc) ==
  IF vars = << >> THEN acc
  ELSE SumContributions(Tail(vars), WrapI8(acc + reduce_contribution(Head(vars))))

compute_coin_flip(secret_variable_ids) ==
  BitAnd8(SumContributions(secret_variable_ids, 0), 1)

parse_compute_output(result) == result # 0

\* ------------------------------------------------------ CoinFlipState
PhaseOf(st, player) ==
  IF player \in DOMAIN st.game_phases THEN st.game_phases[player] ELSE "Start"

is_game_finished(st, player) == player \in DOMAIN st.flip_results

\* get_winner returns Option<Address>: the set holding the winner, if any
get_winner(st, player) ==
  IF player \in DOMAIN st.winners THEN {st.winners[player]} ELSE {}

\* `*balance += amount` on a u64
AdjustOverflows(st, user, amount) ==
  user \in DOMAIN st.user_balances /\ Overflows(st.user_balances[user] + amount)

adjust_balance(st, user, amount) ==
  IF user \in DOMAIN st.user_balances
  THEN [st EXCEPT !.user_balances[user] = WrapU64(@ + amount)]
  ELSE [st EXCEPT !.user_balances = MapInsert(@, user, amount)]

initialize(token_address) ==
  [player_bets |-> EmptyMap,
   flip_results |-> EmptyMap,
   winners |-> EmptyMap,
   user_balances |-> EmptyMap,
   game_phases |-> EmptyMap,
   token_address |-> token_address]

\* ------------------------------------------------ transaction outcomes
NoZk == "none"
Outcome(st, events, zk) == [state |-> st, events |-> events, zk |-> zk, ok |-> TRUE]
\* a panic aborts the transaction: the persisted state stays, nothing is emitted
Panic(st) == [state |-> st, events |-> << >>, zk |-> NoZk, ok |-> FALSE]

\* ------------------------------------------- start_game_and_place_bet
\* the reset forgetting to clear the winner
ResetPlayer_KeepsWinner(st, sender) ==
  [st EXCEPT !.player_bets = MapRemove(@, sender),
             !.flip_results = MapRemove(@, sender),
             !.game_phases = MapInsert(@, sender, "Start")]

ResetPlayer(st, sender) ==
  [st EXCEPT !.player_bets = MapRemove(@, sender),
             !.flip_results = MapRemove(@, sender),
             !.winners = MapRemove(@, sender),
             !.game_phases = MapInsert(@, sender, "Start")]

\* the reset applied to a finished session only
ResetIfInconsistent_OnlyDone(st, sender) ==
  IF PhaseOf(st, sender) = "Done" THEN ResetPlayer(st, sender) ELSE st

ResetIfInconsistent(st, sender) ==
  IF PhaseOf(st, sender) = "Start" THEN st ELSE ResetPlayer(st, sender)

PlaceBet(st, sender, bet_amount, choice) ==
  [st EXCEPT !.player_bets =
     MapInsert(@, sender, [amount |-> bet_amount, choice |-> choice])]

EscrowEvents(st, sender, bet_amount) ==
  << [call |-> [to |-> st.token_address, shortname |-> 3,
                args |-> <<sender, contract_address, bet_amount>>],
      callback |-> << [shortname |-> 1, cost |-> 1000, args |-> <<sender>>] >>] >>

start_game_and_place_bet(sender, st, bet_amount, choice) ==
  LET st1 == ResetIfInconsistent(st, sender)
  IN IF PhaseOf(st1, sender) # "Start" THEN Panic(st)
     ELSE Outcome(PlaceBet(st1, sender, bet_amount, choice),
                  EscrowEvents(st1, sender, bet_amount), NoZk)

\* ------------------------------------------ transfer_success_callback
transfer_success_callback(succeeded, st, player) ==
  IF ~succeeded THEN Panic(st)
  ELSE Outcome([st EXCEPT !.game_phases = MapInsert(@, player, "FlipCoin")],
               << >>, NoZk)

\* --------------------------------------------- add_randomness_to_flip
\* the phase check loosened to "any phase but Start"
InFlipCoinPhase_AnyStarted(st, sender) == PhaseOf(st, sender) # "Start"

InFlipCoinPhase(st, sender) == PhaseOf(st, sender) = "FlipCoin"

add_randomness_to_flip(sender, st) ==
  IF ~InFlipCoinPhase(st, sender) THEN Panic(st)
  ELSE Outcome(st, << >>, "InputRandomness")

inputted_variable(st, variable_id) == st

\* ---------------------------------------------------------- flip_coin
flip_coin(sender, st) ==
  IF ~InFlipCoinPhase(st, sender) THEN Panic(st)
  ELSE Outcome(st, << >>, "StartComputation")

flip_compute_complete(st, output_variables) ==
  Outcome(st, << >>, "OpenVariables")

\* ------------------------------------------ open_flip_result_variable
\* the count check loosened to "at least one"
OpenedCountOk_AtLeastOne(opened_variables) == Len(opened_variables) >= 1

OpenedCountOk(opened_variables) == Len(opened_variables) = 1

\* the win condition with the Tails arm dropping its negation
PlayerWins_TailsOnTrue(choice, flip_result) ==
  (choice = "Heads" /\ flip_result) \/ (choice = "Tails" /\ flip_result)

PlayerWins(choice, flip_result) ==
  (choice = "Heads" /\ flip_result) \/ (choice = "Tails" /\ ~flip_result)

\* the winner's phase set to Done as well
AssignWinner_WinnerDone(st, player, flip_result) ==
  IF player \in DOMAIN st.player_bets
  THEN LET winner == IF PlayerWins(st.player_bets[player].choice, flip_result)
                     THEN player ELSE contract_address
       IN [st EXCEPT !.winners = MapInsert(@, player, winner),
                     !.game_phases = MapInsert(@, winner, "Done")]
  ELSE st

AssignWinner(st, player, flip_result) ==
  IF player \in DOMAIN st.player_bets
  THEN IF PlayerWins(st.player_bets[player].choice, flip_result)
       THEN [st EXCEPT !.winners = MapInsert(@, player, player)]
       ELSE [st EXCEPT !.winners = MapInsert(@, player, contract_address)]
  ELSE st

\* the settlement leaving the phase as it is
Settle_KeepsPhase(st, player, flip_result) ==
  AssignWinner([st EXCEPT !.flip_results = MapInsert(@, player, flip_result)],
               player, flip_result)

Settle(st, player, flip_result) ==
  AssignWinner([st EXCEPT !.flip_results = MapInsert(@, player, flip_result),
                          !.game_phases = MapInsert(@, player, "Done")],
               player, flip_result)

\* an opened variable is [metadata, data]; data is << >> for None
open_flip_result_variable(st, opened_variables) ==
  IF ~OpenedCountOk(opened_variables) THEN Panic(st)
  ELSE LET opened_variable == Head(opened_variables)
       IN IF opened_variable.metadata.kind = "FlipResult"
          THEN IF opened_variable.data # << >>
               THEN Outcome(Settle(st, opened_variable.metadata.player,
                                   parse_compute_output(WrapI8(opened_variable.data[1]))),
                            << >>, NoZk)
               ELSE Panic(st)
          ELSE Outcome(st, << >>, NoZk)

\* ------------------------------------------------------ payout_winner
\* the winner test reduced to "a winner is recorded"
PayoutDue_AnyWinner(st, sender) ==
  /\ get_winner(st, sender) # {}
  /\ sender \in DOMAIN st.player_bets

PayoutDue(st, sender) ==
  /\ get_winner(st, sender) = {sender}
  /\ sender \in DOMAIN st.player_bets

PayoutEvents(st, sender, winnings) ==
  << [call |-> [to |-> st.token_address, shortname |-> 1,
                args |-> <<sender, winnings>>],
      callback |-> << >>] >>

payout_winner(sender, st, checks) ==
  IF PhaseOf(st, sender) # "Done" THEN Panic(st)
  ELSE IF PayoutDue(st, sender)
       THEN LET amount == st.player_bets[sender].amount
                winnings == WrapU64(amount * 2)
            IN IF checks /\ (Overflows(amount * 2)
                             \/ AdjustOverflows(st, sender, winnings))
               THEN Panic(st)
               ELSE Outcome(adjust_balance(st, sender, winnings),
                            PayoutEvents(st, sender, winnings), NoZk)
       ELSE Outcome(st, << >>, NoZk)

\* ---------------------------------------------------------------- state
VARIABLES
  state,            \* CoinFlipState as persisted
  escrow,           \* per player: fate of the escrow request of the recorded bet
  stale_callbacks,  \* per player: a callback of an overwritten bet is in flight
  pending_inputs,   \* secret inputs registered, not yet confirmed
  secret_variables, \* confirmed Randomness contributions
  computations,     \* players whose computation is running
  open_requests,    \* output variables the contract asked to open
  paid,             \* per player: transfers emitted since the bet was placed
                    \* (0, 1, or 2 for "more than one")
  last              \* the last transaction: entry point, inputs, outcome

vars == <<state, escrow, stale_callbacks, pending_inputs, secret_variables,
          computations, open_requests, paid, last>>

zk_vars == <<pending_inputs, secret_variables, computations, open_requests>>

NoChoice == "none"
Tx(op, who, phase, out, data, choice, count) ==
  [op |-> op, who |-> who, phase |-> phase, ok |-> out.ok,
   events |-> out.events, zk |-> out.zk, data |-> data, choice |-> choice,
   count |-> count]

Init ==
  /\ state = initialize(TokenAddress)
  /\ escrow = [p \in Players |-> "none"]
  /\ stale_callbacks = [p \in Players |-> FALSE]
  /\ pending_inputs = 0
  /\ secret_variables = << >>
  /\ computations = {}
  /\ open_requests = {}
  /\ paid = [p \in Players |-> 0]
  /\ last = [op |-> "initialize", who |-> contract_address, phase |-> "Start",
             ok |-> TRUE, events |-> << >>, zk |-> NoZk, data |-> 0,
             choice |-> NoChoice, count |-> 0]

\* action 0x01.  The host keeps at most two escrow callbacks of a player in
\* flight: the one of the recorded bet and one of an overwritten bet.
StartGameAndPlaceBet(sender, bet_amount, choice) ==
  LET out == start_game_and_place_bet(sender, state, bet_amount, choice)
  IN /\ escrow[sender] = "pending" => ~stale_callbacks[sender]
     /\ state' = out.state
     /\ last' = Tx("start_game_and_place_bet", sender, PhaseOf(state, sender),
                   out, bet_amount, choice, 0)
     /\ IF out.ok
        THEN /\ escrow' = [escrow EXCEPT ![sender] = "pending"]
             /\ stale_callbacks' =
                  [stale_callbacks EXCEPT
                     ![sender] = @ \/ escrow[sender] = "pending"]
             /\ paid' = [paid EXCEPT ![sender] = 0]
        ELSE UNCHANGED <<escrow, stale_callbacks, paid>>
     /\ UNCHANGED zk_vars

\* callback 0x01, for the escrow request of the recorded bet
TransferCallback(player, succeeded) ==
  LET out == transfer_success_callback(succeeded, state, player)
  IN /\ escrow[player] = "pending"
     /\ state' = out.state
     /\ last' = Tx("transfer_success_callback", player, PhaseOf(state, player),
                   out, 0, NoChoice, 0)
     /\ escrow' = [escrow EXCEPT ![player] = IF succeeded THEN "ok" ELSE "failed"]
     /\ UNCHANGED <<stale_callbacks, paid, zk_vars>>

\* callback 0x01, for the escrow request of a bet that was overwritten since
StaleTransferCallback(player, succeeded) ==
  LET out == transfer_success_callback(succeeded, state, player)
  IN /\ stale_callbacks[player]
     /\ state' = out.state
     /\ last' = Tx("transfer_success_callback", player, PhaseOf(state, player),
                   out, 0, NoChoice, 0)
     /\ stale_callbacks' = [stale_callbacks EXCEPT ![player] = FALSE]
     /\ UNCHANGED <<escrow, paid, zk_vars>>

\* secret input 0x40
AddRandomnessToFlip(sender) ==
  LET out == add_randomness_to_flip(sender, state)
  IN /\ out.ok => pending_inputs + Len(secret_variables) < MaxInputs
     /\ state' = out.state
     /\ last' = Tx("add_randomness_to_flip", sender, PhaseOf(state, sender),
                   out, 0, NoChoice, 0)
     /\ pending_inputs' = IF out.ok THEN pending_inputs + 1 ELSE pending_inputs
     /\ UNCHANGED <<escrow, stale_callbacks, paid,
                    secret_variables, computations, open_requests>>

\* variable-committed hook: the engine confirms a contribution
InputtedVariable(value) ==
  /\ pending_inputs > 0
  /\ state' = inputted_variable(state, Len(secret_variables) + 1)
  /\ pending_inputs' = pending_inputs - 1
  /\ secret_variables' = Append(secret_variables, value)
  /\ last' = [op |-> "inputted_variable", who |-> contract_address,
              phase |-> "Start", ok |-> TRUE, events |-> << >>, zk |-> NoZk,
              data |-> 0, choice |-> NoChoice, count |-> 0]
  /\ UNCHANGED <<escrow, stale_callbacks, paid, computations, open_requests>>

\* action 0x03
FlipCoin(sender) ==
  LET out == flip_coin(sender, state)
  IN /\ out.ok => /\ sender \notin computations
                  /\ Cardinality(computations) + Cardinality(open_requests)
                       < MaxOutputs
     /\ state' = out.state
     /\ last' = Tx("flip_coin", sender, PhaseOf(state, sender), out, 0, NoChoice, 0)
     /\ computations' = IF out.ok THEN computations \cup {sender}
                        ELSE computations
     /\ UNCHANGED <<escrow, stale_callbacks, paid,
                    pending_inputs, secret_variables, open_requests>>

\* compute-complete hook: the engine ran compute_coin_flip for the player's
\* computation; the output variable is tagged FlipResult{player}
FlipComputeComplete(player) ==
  LET output_variable ==
        [metadata |-> [kind |-> "FlipResult", player |-> player],
         data |-> compute_coin_flip(secret_variables)]
      out == flip_compute_complete(state, <<output_variable>>)
  IN /\ player \in computations
     /\ state' = out.state
     /\ last' = Tx("flip_compute_complete", player, PhaseOf(state, player),
                   out, output_variable.data, NoChoice, 1)
     /\ computations' = computations \ {player}
     /\ open_requests' = open_requests \cup {output_variable}
     /\ UNCHANGED <<escrow, stale_callbacks, paid,
                    pending_inputs, secret_variables>>

\* the orders in which the engine may list a set of variables
SeqsOf(S) ==
  {sq \in [1..Cardinality(S) -> S] : \A v \in S : \E k \in 1..Cardinality(S) : sq[k] = v}

\* the lists of variables the engine may open in one hook call
OpenLists == UNION {SeqsOf(S) : S \in SUBSET open_requests}

\* variables-opened hook: the engine opens the variables `ids` in one call and
\* hands over their data (has_data) or none
OpenFlipResultVariable(ids, has_data) ==
  LET opened_variables ==
        [k \in 1..Len(ids) |->
           [metadata |-> ids[k].metadata,
            data |-> IF has_data THEN <<ToU8(ids[k].data)>> ELSE << >>]]
      out == open_flip_result_variable(state, opened_variables)
      first == IF ids = << >> THEN [who |-> contract_address, data |-> 0]
               ELSE [who |-> ids[1].metadata.player, data |-> ids[1].data]
  IN /\ state' = out.state
     /\ last' = Tx("open_flip_result_variable", first.who,
                   PhaseOf(state, first.who), out, first.data, NoChoice,
                   Len(ids))
     /\ open_requests' = open_requests \ {ids[k] : k \in 1..Len(ids)}
     /\ UNCHANGED <<escrow, stale_callbacks, paid,
                    pending_inputs, secret_variables, computations>>

\* action 0x04; checks is the build's overflow-checks setting
PayoutWinner(sender, checks) ==
  LET out == payout_winner(sender, state, checks)
  IN /\ state' = out.state
     /\ last' = Tx("payout_winner", sender, PhaseOf(state, sender), out, 0, NoChoice, 0)
     /\ paid' = IF out.events # << >>
                THEN [paid EXCEPT ![sender] = IF @ < 2 THEN @ + 1 ELSE @]
                ELSE paid
     /\ UNCHANGED <<escrow, stale_callbacks, zk_vars>>

\* one transaction other than a disclosure, with senders S betting amounts A
\* on choices C
Calls(S, A, C) ==
  \/ \E p \in S, a \in A, c \in C : StartGameAndPlaceBet(p, a, c)
  \/ \E p \in S, ok \in BOOLEAN : TransferCallback(p, ok)
  \/ \E p \in S, ok \in BOOLEAN : StaleTransferCallback(p, ok)
  \/ \E p \in S : AddRandomnessToFlip(p)
  \/ \E v \in Contributions : InputtedVariable(v)
  \/ \E p \in S : FlipCoin(p)
  \/ \E p \in S : FlipComputeComplete(p)
  \/ \E p \in S, checks \in BOOLEAN : PayoutWinner(p, checks)

\* one transaction; the engine may open any list of variables, with or
\* without their data
Step(S, A, C) ==
  \/ Calls(S, A, C)
  \/ \E ids \in OpenLists, d \in BOOLEAN : OpenFlipResultVariable(ids, d)

\* one player's sessions, every stake and choice
Next == Step({"alice"}, BetAmounts, PlayerChoice)
Spec == Init /\ [][Next]_vars

\* ------------------------------------------------------------ properties
Has(m, k) == k \in DOMAIN m
IsWinner(st, p) == Has(st.winners, p) /\ st.winners[p] = p
EmitsTransfer(tx) ==
  \E k \in 1..Len(tx.events) : tx.events[k].call.shortname = 1

\* C1: no player is paid twice - between two bets of a player payout_winner
\* emits the token transfer at most once.
C1_PaidAtMostOnce == \A p \in Players : paid[p] <= 1

\* C2: payout_winner emits a transfer only when the caller's phase is Done and
\* the caller is the recorded winner; in every other case it emits nothing and
\* leaves the state as it was.
C2_PayoutOnlyToWinner ==
  [][last'.op = "payout_winner" =>
       LET due == PhaseOf(state, last'.who) = "Done" /\ IsWinner(state, last'.who)
       IN /\ last'.events # << >> => due
          /\ ~due => last'.events = << >> /\ state' = state]_vars

C2_Witness ==
  /\ last.op = "payout_winner"
  /\ EmitsTransfer(last)
  /\ last.events[1].call.args[1] = last.who

\* C3: a disclosure for a player with a recorded bet sets the winner from the
\* bet's choice and the disclosed bit alone: the player on (Heads, 1) and
\* (Tails, 0), the contract on (Heads, 0) and (Tails, 1).
C3_WinnerFromChoiceAndBit ==
  [][(/\ last'.op = "open_flip_result_variable"
      /\ last'.ok
      /\ Has(state.player_bets, last'.who)) =>
       LET p == last'.who
           choice == state.player_bets[p].choice
           bit == last'.data
       IN /\ Has(state'.winners, p)
          /\ (choice = "Heads" /\ bit = 1) => state'.winners[p] = p
          /\ (choice = "Tails" /\ bit = 0) => state'.winners[p] = p
          /\ (choice = "Heads" /\ bit = 0) => state'.winners[p] = contract_address
          /\ (choice = "Tails" /\ bit = 1) => state'.winners[p] = contract_address
          /\ bit \in {0, 1}]_vars

C3_Witness ==
  /\ last.op = "open_flip_result_variable"
  /\ last.ok
  /\ Has(state.winners, last.who)
  /\ state.winners[last.who] = contract_address
  /\ state.player_bets[last.who].choice = "Tails"

\* C4: flip_coin and add_randomness_to_flip succeed exactly when the sender's
\* phase is FlipCoin; otherwise they abort, leaving the state and the engine
\* untouched and emitting nothing.
C4_FlipNeedsFlipCoinPhase ==
  [][last'.op \in {"flip_coin", "add_randomness_to_flip"} =>
       /\ last'.ok <=> PhaseOf(state, last'.who) = "FlipCoin"
       /\ ~last'.ok => /\ state' = state
                       /\ last'.zk = NoZk
                       /\ last'.events = << >>
                       /\ UNCHANGED zk_vars]_vars

C4_Witness ==
  /\ last.op \in {"flip_coin", "add_randomness_to_flip"}
  /\ ~last.ok
  /\ last.phase = "Done"

\* C5: a bet placed in phase Start is stored and the phase stays Start; the
\* phase of a player with a bet leaves Start only by a successful escrow
\* callback for that player.
C5_LeavesStartOnlyByEscrow ==
  [][\A p \in Players :
       /\ (/\ last'.op = "start_game_and_place_bet"
           /\ last'.who = p
           /\ PhaseOf(state, p) = "Start") =>
            /\ Has(state'.player_bets, p)
            /\ state'.player_bets[p] = [amount |-> last'.data, choice |-> last'.choice]
            /\ PhaseOf(state', p) = "Start"
       /\ (/\ Has(state.player_bets, p)
           /\ PhaseOf(state, p) = "Start"
           /\ PhaseOf(state', p) # "Start") =>
            /\ last'.op = "transfer_success_callback"
            /\ last'.who = p
            /\ last'.ok]_vars

\* C6: a bet placed in a phase other than Start leaves the player with exactly
\* the new bet, no flip result, no winner, and phase Start.
C6_RebetClearsSession ==
  [][(/\ last'.op = "start_game_and_place_bet"
      /\ PhaseOf(state, last'.who) # "Start") =>
       LET p == last'.who
       IN /\ last'.ok
          /\ Has(state'.player_bets, p)
          /\ state'.player_bets[p] = [amount |-> last'.data, choice |-> last'.choice]
          /\ ~Has(state'.flip_results, p)
          /\ ~Has(state'.winners, p)
          /\ Has(state'.game_phases, p)
          /\ state'.game_phases[p] = "Start"]_vars

C6_Witness ==
  /\ last.op = "start_game_and_place_bet"
  /\ last.phase = "Done"
  /\ last.ok
  /\ paid[last.who] = 0
  /\ Has(state.user_balances, last.who)

\* C7: the escrow callback sets the player's phase to FlipCoin on success and
\* aborts without a state change on failure, after which the player's bet is
\* still recorded and the phase is Start.
C7_EscrowCallback ==
  [][last'.op = "transfer_success_callback" =>
       LET p == last'.who
       IN /\ last'.ok => PhaseOf(state', p) = "FlipCoin"
          /\ ~last'.ok => /\ state' = state
                          /\ Has(state'.player_bets, p)
                          /\ PhaseOf(state', p) = "Start"]_vars

\* C8: the variables-opened hook aborts when the number of opened variables is
\* not one, and then changes nothing in the contract state.
C8_OpenedCountMustBeOne ==
  [][(last'.op = "open_flip_result_variable" /\ last'.count # 1) =>
       ~last'.ok /\ state' = state]_vars

C8_Witness ==
  /\ last.op = "open_flip_result_variable"
  /\ last.count = 2
  /\ ~last.ok

\* C9: every change of a player's phase is Start to FlipCoin by a successful
\* escrow callback, FlipCoin to Done by a disclosure, or a non-Start phase to
\* Start by the reset of start_game_and_place_bet.
C9_PhaseTransitions ==
  [][\A p \in Players :
       PhaseOf(state, p) # PhaseOf(state', p) =>
         \/ /\ PhaseOf(state, p) = "Start"
            /\ PhaseOf(state', p) = "FlipCoin"
            /\ last'.op = "transfer_success_callback"
         \/ /\ PhaseOf(state, p) = "FlipCoin"
            /\ PhaseOf(state', p) = "Done"
            /\ last'.op = "open_flip_result_variable"
         \/ /\ PhaseOf(state, p) # "Start"
            /\ PhaseOf(state', p) = "Start"
            /\ last'.op = "start_game_and_place_bet"]_vars

\* C10: once a disclosure has written a player's flip result and winner, no
\* step other than that player's start_game_and_place_bet changes either.
C10_ResultSetOnce ==
  [][\A p \in Players :
       (/\ Has(state.flip_results, p)
        /\ Has(state.winners, p)
        /\ ~(last'.op = "start_game_and_place_bet" /\ last'.who = p)) =>
         /\ Has(state'.flip_results, p)
         /\ Has(state'.winners, p)
         /\ state'.flip_results[p] = state.flip_results[p]
         /\ state'.winners[p] = state.winners[p]]_vars

\* ------------------------------------------ the disclosure handler alone
\* The handler as a function of the state it is handed: the sessions of the
\* players are drawn (none, or a bet with phase Start or FlipCoin), and the
\* engine holds one output variable tagged FlipResult{player}.
Bets == [amount : BetAmounts, choice : PlayerChoice]

SettleInputs ==
  {[initialize(TokenAddress) EXCEPT !.player_bets = b, !.game_phases = ph] :
     b \in UNION {[D -> Bets] : D \in SUBSET Players},
     ph \in UNION {[D -> {"Start", "FlipCoin"}] : D \in SUBSET Players}}

InitSettle ==
  /\ state \in {st \in SettleInputs :
                  DOMAIN st.player_bets = DOMAIN st.game_phases}
  /\ open_requests \in
       {{[metadata |-> [kind |-> "FlipResult", player |-> p], data |-> d]} :
          p \in Players, d \in {0, 1}}
  /\ escrow = [p \in Players |-> "none"]
  /\ stale_callbacks = [p \in Players |-> FALSE]
  /\ pending_inputs = 0
  /\ secret_variables = << >>
  /\ computations = {}
  /\ paid = [p \in Players |-> 0]
  /\ last = [op |-> "initialize", who |-> contract_address, phase |-> "Start",
             ok |-> TRUE, events |-> << >>, zk |-> NoZk, data |-> 0,
             choice |-> NoChoice, count |-> 0]

NextSettle == \E ids \in OpenLists, d \in BOOLEAN : OpenFlipResultVariable(ids, d)
SpecSettle == InitSettle /\ [][NextSettle]_vars

C12_TransferIsTwiceTheStake ==
  [][(last'.op = "payout_winner" /\ EmitsTransfer(last')) =>
       LET amount == state.player_bets[last'.who].amount
           sent == last'.events[1].call.args[2]
       IN sent = 2 * amount /\ sent >= amount]_vars

\* C13: user_balances is credited only by a disclosure, and only for a player
\* who wins; payout_winner and every other operation leave it unchanged, the
\* contract gets no entry for a house win, and no balance ever decreases.
C13_CreditedOnlyBySettlement ==
  [][/\ state'.user_balances # state.user_balances =>
          /\ last'.op = "open_flip_result_variable"
          /\ IsWinner(state', last'.who)
     /\ ~Has(state'.user_balances, contract_address)
     /\ \A p \in DOMAIN state.user_balances :
          /\ Has(state'.user_balances, p)
          /\ state'.user_balances[p] >= state.user_balances[p]]_vars

\* C14: a player can always restart - in every reachable state, for every
\* player, stake and choice, start_game_and_place_bet succeeds and leaves the
\* player with phase Start, the new bet, and no flip result or winner.
C14_CanAlwaysRestart ==
  \A p \in Players, a \in BetAmounts, c \in PlayerChoice :
    LET out == start_game_and_place_bet(p, state, a, c)
    IN /\ out.ok
       /\ PhaseOf(out.state, p) = "Start"
       /\ Has(out.state.player_bets, p)
       /\ out.state.player_bets[p] = [amount |-> a, choice |-> c]
       /\ ~Has(out.state.flip_results, p)
       /\ ~Has(out.state.winners, p)

C14_Witness ==
  /\ last.op = "start_game_and_place_bet"
  /\ last.ok
  /\ last.phase = "FlipCoin"
  /\ last.who \in computations
  /\ PhaseOf(state, last.who) = "Start"

\* C15: whenever payout_winner emits the transfer for a player, the escrow
\* request issued for that player's recorded bet has received its success
\* callback; a bet whose escrow failed or is pending is never paid out.
C15_PaidOnlyWhenEscrowed ==
  [][(last'.op = "payout_winner" /\ EmitsTransfer(last')) =>
       escrow[last'.who] = "ok"]_vars

\* C16: in every reachable state and for every player, flip_results has an
\* entry exactly when the phase is Done, and winners has an entry exactly when
\* flip_results has one.
C16_PhaseAndLedgerAgree ==
  \A p \in Players :
    /\ Has(state.flip_results, p) <=> PhaseOf(state, p) = "Done"
    /\ Has(state.winners, p) <=> Has(state.flip_results, p)

\* ------------------------------------------ a second player's entries
\* bob has played a session before alice starts: up to the escrow callback
\* (on Heads), up to a lost disclosure (on Heads), or up to the payout of a
\* win (on Tails).  The engine held no contributions, so the disclosed bit is
\* compute_coin_flip(<< >>).
Addresses == Players \cup {contract_address}

EscrowedSession(player, choice) ==
  transfer_success_callback(
    TRUE,
    start_game_and_place_bet(player, initialize(TokenAddress), 1, choice).state,
    player)

SettledSession(player, choice) ==
  open_flip_result_variable(
    EscrowedSession(player, choice).state,
    << [metadata |-> [kind |-> "FlipResult", player |-> player],
        data |-> <<ToU8(compute_coin_flip(<< >>))>>] >>)

PaidSession(player, choice) ==
  payout_winner(player, SettledSession(player, choice).state, TRUE)

InitTwo ==
  /\ \/ /\ state = EscrowedSession("bob", "Heads").state
        /\ last = Tx("transfer_success_callback", "bob", "Start",
                     EscrowedSession("bob", "Heads"), 0, NoChoice, 0)
        /\ paid = [p \in Players |-> 0]
     \/ /\ state = SettledSession("bob", "Heads").state
        /\ last = Tx("open_flip_result_variable", "bob", "FlipCoin",
                     SettledSession("bob", "Heads"), compute_coin_flip(<< >>),
                     NoChoice, 1)
        /\ paid = [p \in Players |-> 0]
     \/ /\ state = PaidSession("bob", "Tails").state
        /\ last = Tx("payout_winner", "bob", "Done",
                     PaidSession("bob", "Tails"), 0, NoChoice, 0)
        /\ paid = [p \in Players |-> IF p = "bob" THEN 1 ELSE 0]
  /\ escrow = [p \in Players |-> IF p = "bob" THEN "ok" ELSE "none"]
  /\ stale_callbacks = [p \in Players |-> FALSE]
  /\ pending_inputs = 0
  /\ secret_variables = << >>
  /\ computations = {}
  /\ open_requests = {}

NextTwo == Step({"alice"}, {1}, {"Heads"})
SpecTwo == InitTwo /\ [][NextTwo]_vars

\* what the ledger holds for one address
EntriesOf(st, who) ==
  [bet |-> IF Has(st.player_bets, who) THEN {st.player_bets[who]} ELSE {},
   flip |-> IF Has(st.flip_results, who) THEN {st.flip_results[who]} ELSE {},
   winner |-> get_winner(st, who),
   balance |-> IF Has(st.user_balances, who) THEN {st.user_balances[who]} ELSE {},
   phase |-> IF Has(st.game_phases, who) THEN {st.game_phases[who]} ELSE {}]

\* C17: every entry point changes ledger entries of one player only - the
\* sender of start_game_and_place_bet and payout_winner, the player in the
\* callback payload, the player in the FlipResult metadata; the entries of
\* every other address and the token address are unchanged by the step.
C17_OnePlayerPerStep ==
  [][/\ \A who \in Addresses \ {last'.who} :
          EntriesOf(state', who) = EntriesOf(state, who)
     /\ state'.token_address = state.token_address]_vars

C17_Witness ==
  /\ last.op = "open_flip_result_variable"
  /\ last.ok
  /\ last.who = "alice"
  /\ get_winner(state, "alice") = {contract_address}
  /\ get_winner(state, "bob") = {"bob"}
  /\ Has(state.user_balances, "bob")

\* ---------------------------------------------- the engine's schedule
\* The engine answers every OpenVariables request with one variables-opened
\* call for the requested variable, carrying its data; it runs every started
\* computation to completion and opens every variable it was asked to open.
OutputVariables ==
  {[metadata |-> [kind |-> "FlipResult", player |-> p], data |-> d] :
     p \in Players, d \in {0, 1}}

OpenRequested(v) == v \in open_requests /\ OpenFlipResultVariable(<<v>>, TRUE)

\* payout_winner changes neither a phase nor the engine's state and is left
\* out of the schedule
NextFair ==
  \/ StartGameAndPlaceBet("alice", 1, "Heads")
  \/ \E ok \in BOOLEAN : TransferCallback("alice", ok)
  \/ \E ok \in BOOLEAN : StaleTransferCallback("alice", ok)
  \/ AddRandomnessToFlip("alice")
  \/ \E v \in Contributions : InputtedVariable(v)
  \/ FlipCoin("alice")
  \/ FlipComputeComplete("alice")
  \/ \E v \in OutputVariables : OpenRequested(v)

FairSpec ==
  /\ Init
  /\ [][NextFair]_vars
  /\ WF_vars(\E p \in Players : FlipComputeComplete(p))
  /\ WF_vars(\E v \in OutputVariables : OpenRequested(v))

\* C18: with the compute-complete and variables-opened hooks weakly fair, a
\* player in phase FlipCoin who has called flip_coin eventually has phase Done;
\* the phase cannot stay FlipCoin through a disclosure for the player, since
\* every delivered disclosure leaves the phase Done.
C18_FlipLeadsToDone ==
  /\ \A p \in Players :
       (last.op = "flip_coin" /\ last.ok /\ last.who = p)
         ~> (PhaseOf(state, p) = "Done")
  /\ [][(last'.op = "open_flip_result_variable" /\ last'.ok) =>
          PhaseOf(state', last'.who) = "Done"]_vars

C18_Witness ==
  /\ last.op = "open_flip_result_variable"
  /\ last.ok
  /\ last.phase = "FlipCoin"
  /\ PhaseOf(state, last.who) = "Done"
  /\ computations = {}
  /\ open_requests = {}

\* ------------------------------------------------ the computation alone
\* compute_coin_flip as a function of the contributions the engine holds:
\* a run of one repeated 8-bit value (long enough for the 8-bit sum to wrap)
\* followed by a short tail.
I8 == -128..127
Repeat(value, n) == [k \in 1..n |-> value]
ZkTails == {<< >>, <<1>>, <<6, -3>>}
ZkInputs == {Repeat(v, n) \o t : v \in I8, n \in 0..MaxRepeat, t \in ZkTails}

InitZk ==
  /\ secret_variables \in ZkInputs
  /\ state = initialize(TokenAddress)
  /\ escrow = [p \in Players |-> "none"]
  /\ stale_callbacks = [p \in Players |-> FALSE]
  /\ pending_inputs = 0
  /\ computations = {}
  /\ open_requests = {}
  /\ paid = [p \in Players |-> 0]
  /\ last = [op |-> "initialize", who |-> contract_address, phase |-> "Start",
             ok |-> TRUE, events |-> << >>, zk |-> NoZk, data |-> 0,
             choice |-> NoChoice, count |-> 0]

\* the engine runs the computation over its secret variables
ComputeCoinFlip ==
  /\ last.op = "initialize"
  /\ last' = [op |-> "compute_coin_flip", who |-> contract_address,
              phase |-> "Start", ok |-> TRUE, events |-> << >>, zk |-> NoZk,
              data |-> compute_coin_flip(secret_variables),
              choice |-> NoChoice, count |-> Len(secret_variables)]
  /\ UNCHANGED <<state, escrow, stale_callbacks, paid, zk_vars>>

NextZk == ComputeCoinFlip
ZkSpec == InitZk /\ [][NextZk]_vars

\* the number of contributions whose lowest bit is set
RECURSIVE LowBitSum(_)
LowBitSum(contributions) ==
  IF contributions = << >> THEN 0
  ELSE (Head(contributions) % 2) + LowBitSum(Tail(contributions))

\* C19: for every list of signed 8-bit contributions compute_coin_flip returns
\* 0 or 1, equal to the parity of the contributions' lowest bits also when the
\* 8-bit running sum wraps; parse_compute_output maps the value to true
\* exactly when it is 1.
C19_FlipIsParity ==
  last.op = "compute_coin_flip" =>
    /\ last.data \in {0, 1}
    /\ last.data = LowBitSum(secret_variables) % 2
    /\ parse_compute_output(last.data) <=> last.data = 1

C19_Witness ==
  /\ last.op = "compute_coin_flip"
  /\ SumContributions(secret_variables, 0) < 0
  /\ last.data = 1
  /\ parse_compute_output(last.data)

\* C20: reduce_contribution returns 0 or 1 for every signed 8-bit value it is
\* applied to.
C20_ReducedToBit ==
  last.op = "compute_coin_flip" =>
    \A k \in 1..Len(secret_variables) :
      reduce_contribution(secret_variables[k]) \in {0, 1}
====
